---- MODULE Spec2Model ----
(***************************************************************************)
(* Model of the LinkedIn notification reconciler                           *)
(* (src/src/parsers/linkedin/processor.py, process_gmail_labels_to_csv)    *)
(* and of the field parsers it calls                                       *)
(* (src/src/parsers/linkedin/email_parsers.py).                            *)
(*                                                                         *)
(* Representation of Python values:                                        *)
(*   - a str is a sequence of symbols; a symbol is a letter-like unit      *)
(*     (a word, a fixed phrase, a blank " ", the middle dot).  "" is <<>>. *)
(*   - a "YYYY-MM-DD" date string is the triple <<year, month, day>> of    *)
(*     its components, "" is <<>>.                                         *)
(*   - a dict with a fixed key set is a record; job_applications is a      *)
(*     function from keys to records plus its insertion order.             *)
(***************************************************************************)
EXTENDS Integers, Sequences, FiniteSets, TLC

\* ------------------------------------------------------------------------
\* Bounds of the model
\* ------------------------------------------------------------------------

\* total number of messages over the three label mailboxes of one run
MaxMsgs == 3

\* ------------------------------------------------------------------------
\* Strings
\* ------------------------------------------------------------------------

BLANK == " "
\* the character U+00B7
MIDDOT == "(middot)"
ANCHOR == "Your application was sent to"
VIEWED_BY == "Your application was viewed by"
APPLICATION_TO == "Your application to"

\* str.lower() on one symbol
lower_sym(c) ==
    CASE c = "Acme" -> "acme"
      [] c = "Beta" -> "beta"
      [] c = "SWE" -> "swe"
      [] c = "Remote" -> "remote"
      [] c = "NYC" -> "nyc"
      [] c = "Not Found" -> "not found"
      [] c = ANCHOR -> "your application was sent to"
      [] c = VIEWED_BY -> "your application was viewed by"
      [] c = APPLICATION_TO -> "your application to"
      [] c = "LinkedIn update" -> "linkedin update"
      [] c = "ACME" -> "acme"
      [] c \in {"Corp", "CORP"} -> "corp"
      [] c = "Inc" -> "inc"
      [] c = "Backend" -> "backend"
      [] c = "Engineer" -> "engineer"
      [] c = "New" -> "new"
      [] c = "York" -> "york"
      [] c = "A" -> "a"
      [] c = "B" -> "b"
      [] c = "R" -> "r"
      [] c = "D" -> "d"
      [] OTHER -> c

\* str.lower()
lower(s) == [i \in 1..Len(s) |-> lower_sym(s[i])]

IsSpace(c) == c = BLANK

RECURSIVE lstrip(_)
lstrip(s) == IF s # <<>> /\ IsSpace(Head(s)) THEN lstrip(Tail(s)) ELSE s

RECURSIVE rstrip(_)
rstrip(s) ==
    IF s # <<>> /\ IsSpace(s[Len(s)]) THEN rstrip(SubSeq(s, 1, Len(s) - 1)) ELSE s

\* str.strip()
strip(s) == rstrip(lstrip(s))

\* str.replace('&amp;', '&')
replace_amp(s) == [i \in 1..Len(s) |-> IF s[i] = "&amp;" THEN "&" ELSE s[i]]

Min(S) == CHOOSE x \in S : \A y \in S : x <= y
Max(S) == CHOOSE x \in S : \A y \in S : y <= x

\* ------------------------------------------------------------------------
\* get_status_priority (processor.py:66-68)
\* ------------------------------------------------------------------------

get_status_priority(status) ==
    CASE status = "Rejected" -> 3
      [] status = "Viewed" -> 2
      [] status = "Applied" -> 1
      [] OTHER -> 0

\* ------------------------------------------------------------------------
\* parse_applied_info (email_parsers.py:54-81).  The body is given as the
\* sequence of its lines (str.splitlines()).
\* ------------------------------------------------------------------------

HasAnchor(line) == \E i \in 1..Len(line) : line[i] = ANCHOR

\* next(i for i, line in enumerate(lines) if ANCHOR in line); 0 = StopIteration
start_index(lines) ==
    IF \E i \in 1..Len(lines) : HasAnchor(lines[i])
    THEN Min({i \in 1..Len(lines) : HasAnchor(lines[i])})
    ELSE 0

\* the non-blank lines after the anchor line, not stripped
relevant_lines_unstripped(lines, start) ==
    SelectSeq(SubSeq(lines, start + 1, Len(lines)), LAMBDA l : strip(l) # <<>>)

\* [line.strip() for line in lines[start_index + 1:] if line.strip()]
relevant_lines(lines, start) ==
    LET rest == SubSeq(lines, start + 1, Len(lines))
        stripped == [i \in 1..Len(rest) |-> strip(rest[i])]
    IN SelectSeq(stripped, LAMBDA l : l # <<>>)

\* result: ok = FALSE stands for the raised ValueError, reason is str(e)
parse_applied_info(lines) ==
    LET start == start_index(lines)
        rel == IF start = 0 THEN <<>> ELSE relevant_lines(lines, start)
        found == Len(rel) >= 3
        job_title == IF found THEN rel[1] ELSE <<>>
        company_name == IF found THEN rel[2] ELSE <<>>
        location == IF found THEN rel[3] ELSE <<>>
        missing == (IF job_title = <<>> THEN <<"Job Title">> ELSE <<>>)
                   \o (IF company_name = <<>> THEN <<"Company Name">> ELSE <<>>)
                   \o (IF location = <<>> THEN <<"Location">> ELSE <<>>)
    IN [ok |-> missing = <<>>,
        JobTitle |-> job_title,
        CompanyName |-> company_name,
        Location |-> location,
        missing |-> missing,
        reason |-> <<"Could not parse required fields. Missing: ">> \o missing]

\* ------------------------------------------------------------------------
\* parse_viewed_rejected_info (email_parsers.py:83-123).
\* The HTML body is given as the sequence of its elements in document
\* order: [tag, brand, text], where tag is "p" for a paragraph, brand says
\* that the element's style ends in color: #0a66c2;" and text is the text
\* run that follows the opening tag up to the next "<".
\* ------------------------------------------------------------------------

\* the index of the middle dot that ends group 1 of
\* <p[^>]*?>\s*([^<]+?)\s*(middot)\s*(.*?)\s*</p> in a paragraph text:
\* group 1 has at least one character, so the dot is not the first symbol
middot_index(text) ==
    IF \E j \in 2..Len(text) : text[j] = MIDDOT
    THEN Min({j \in 2..Len(text) : text[j] = MIDDOT})
    ELSE 0

\* a search that never finds the company/location paragraph
company_location_match_none(html) == 0

\* re.search of the company/location pattern: index of the first matching
\* paragraph, 0 = no match
company_location_match(html) ==
    LET hits == {e \in 1..Len(html) :
                    html[e].tag = "p" /\ middot_index(html[e].text) # 0}
    IN IF hits = {} THEN 0 ELSE Min(hits)

\* re.search of color:\s*#0a66c2;">\s*([^<]+?)\s*< : index of the first
\* brand-coloured element with a non-empty text run, 0 = no match
job_title_match(html) ==
    LET hits == {e \in 1..Len(html) : html[e].brand /\ html[e].text # <<>>}
    IN IF hits = {} THEN 0 ELSE Min(hits)

\* 'viewed by' in subject.lower()
has_viewed_by(subject) ==
    \E i \in 1..Len(subject) :
        lower_sym(subject[i]) = "your application was viewed by"

\* 'application to' in subject.lower() and 'at' in subject.lower(): every
\* subject that contains "application to" also contains "at"
has_application_to(subject) ==
    \E i \in 1..Len(subject) : lower_sym(subject[i]) = "your application to"

\* re.search(r'Your application was viewed by\s+(.*)', subject, IGNORECASE):
\* group 1, or <<"nomatch">> wrapped as [hit |-> FALSE]
viewed_by_match(subject) ==
    LET hits == {i \in 1..(Len(subject) - 1) :
                    /\ lower_sym(subject[i]) = "your application was viewed by"
                    /\ IsSpace(subject[i + 1])}
    IN IF hits = {}
       THEN [hit |-> FALSE, g1 |-> <<>>]
       ELSE [hit |-> TRUE,
             g1 |-> lstrip(SubSeq(subject, Min(hits) + 1, Len(subject)))]

\* positions j of an "at" that can end group 1 of
\* Your application to\s+(.*?)\s+at\s+(.*) when the phrase is at i
at_positions(subject, i) ==
    {j \in (i + 3)..(Len(subject) - 1) :
        /\ lower_sym(subject[j]) = "at"
        /\ IsSpace(subject[i + 1])
        /\ IsSpace(subject[j - 1])
        /\ IsSpace(subject[j + 1])}

application_to_match(subject) ==
    LET hits == {i \in 1..Len(subject) :
                    /\ lower_sym(subject[i]) = "your application to"
                    /\ at_positions(subject, i) # {}}
    IN IF hits = {}
       THEN [hit |-> FALSE, g1 |-> <<>>, g2 |-> <<>>]
       ELSE LET i == Min(hits)
                j == Min(at_positions(subject, i))
            IN [hit |-> TRUE,
                g1 |-> SubSeq(subject, i + 1, j - 1),
                g2 |-> lstrip(SubSeq(subject, j + 1, Len(subject)))]

\* the "error" value of the result: <<>> stands for None
CRITICAL ==
    <<"Critical parse failure: Could not determine Company Name from HTML or Subject.">>

\* a parser that never flags a critical failure
critical_error_never(company_name) == <<>>

\* if not company_name: error_message = "Critical parse failure: ..."
critical_error(company_name) == IF company_name = <<>> THEN CRITICAL ELSE <<>>

parse_viewed_rejected_info(html, subject) ==
    LET cl == company_location_match(html)
        cl_text == IF cl = 0 THEN <<>> ELSE html[cl].text
        dot == middot_index(cl_text)
        company0 == IF cl = 0 THEN <<>> ELSE strip(SubSeq(cl_text, 1, dot - 1))
        location0 == IF cl = 0 THEN <<>>
                     ELSE strip(SubSeq(cl_text, dot + 1, Len(cl_text)))
        jt == job_title_match(html)
        title0 == IF jt = 0 THEN <<>> ELSE strip(html[jt].text)
        vb == viewed_by_match(subject)
        company1 == IF has_viewed_by(subject) /\ vb.hit /\ company0 = <<>>
                    THEN strip(vb.g1) ELSE company0
        at == application_to_match(subject)
        use_at == has_application_to(subject) /\ at.hit
        title1 == IF use_at /\ title0 = <<>> THEN strip(at.g1) ELSE title0
        company2 == IF use_at /\ company1 = <<>> THEN strip(at.g2) ELSE company1
        company_name == strip(replace_amp(company2))
        job_title == strip(replace_amp(title1))
        location == strip(replace_amp(location0))
    IN [JobTitle |-> job_title,
        CompanyName |-> company_name,
        Location |-> location,
        error |-> critical_error(company_name)]

\* ------------------------------------------------------------------------
\* parse_date_header and generate_comment (processor.py:392-417).
\* A Date header is [kind, y, m, d]: kind "empty" is a missing header,
\* "date" one that dateutil parses (directly or through the fallback
\* pattern), "garbage" one that it rejects with ParserError, "overflow" one
\* that holds a number too large for dateutil (such as
\* "99999999999999999999").
\* ------------------------------------------------------------------------

\* the exception that leaves parse_date_header, "" if none: dateutil raises
\* OverflowError for a number beyond the C long range, and the except
\* clauses at processor.py:401 and :409 name ParserError and TypeError only
\* (the mailboxes of the run below hold no such header)
parse_date_header_raises(header) ==
    IF header.kind = "overflow" THEN "OverflowError" ELSE ""

\* the value parse_date_header returns when nothing is raised
parse_date_header(header) ==
    IF header.kind = "date" THEN <<header.y, header.m, header.d>> ELSE <<>>

generate_comment(subject) ==
    IF subject # <<>>
    THEN <<"Email regarding: ">> \o subject
    ELSE <<"No subject provided for comment.">>

\* int(date_str.split('-')[0])
year_of(date_str) == date_str[1]

\* a filter that lets every message through
date_filtered_never(date_str) == FALSE

\* the "Date Filter" of processor.py:201 and :257
DateFilterYear == 2024
date_filtered(date_str) == date_str # <<>> /\ year_of(date_str) < DateFilterYear

\* ------------------------------------------------------------------------
\* The mailbox: the messages the Gmail collaborator can return.
\* A message is [fetch, inRange, subject, date, plain, html]: fetch is the
\* outcome of get_full_message ("ok" or "http_error"), inRange says whether
\* the run's date query selects it, plain is the plain-text body as lines,
\* html the HTML body as elements.
\* ------------------------------------------------------------------------

LABEL_APPLIED == "LinkedIn/Applied"
LABEL_VIEWED == "LinkedIn/Viewed"
LABEL_REJECTED == "LinkedIn/Rejected"
LABELS == {LABEL_APPLIED, LABEL_VIEWED, LABEL_REJECTED}

DateHdr(y, m, d) == [kind |-> "date", y |-> y, m |-> m, d |-> d]
NoDateHdr == [kind |-> "empty", y |-> 0, m |-> 0, d |-> 0]
BadDateHdr == [kind |-> "garbage", y |-> 0, m |-> 0, d |-> 0]
OverflowDateHdr == [kind |-> "overflow", y |-> 0, m |-> 0, d |-> 0]

AppliedBody(title, company, location) ==
    << <<ANCHOR, BLANK>> \o company, <<>>, <<BLANK>> \o title,
       company \o <<BLANK>> >> \o location

AppliedSubject(company) == <<ANCHOR, BLANK>> \o company

Msg(fetch, inRange, subject, date, plain, html) ==
    [fetch |-> fetch, inRange |-> inRange, subject |-> subject, date |-> date,
     plain |-> plain, html |-> html]

AppliedMsgs ==
    { Msg("ok", TRUE, AppliedSubject(<<"Acme">>), DateHdr(2024, 3, 5),
          AppliedBody(<<"SWE">>, <<"Acme">>, << <<"Remote">> >>), <<>>),
      Msg("ok", TRUE, AppliedSubject(<<"acme">>), DateHdr(2025, 1, 10),
          AppliedBody(<<"swe">>, <<"acme">>, << <<"NYC">> >>), <<>>),
      Msg("ok", TRUE, AppliedSubject(<<"Acme">>), DateHdr(2024, 3, 5),
          AppliedBody(<<"SWE">>, <<"Acme">>, <<>>), <<>>),
      Msg("ok", TRUE, <<>>, BadDateHdr,
          AppliedBody(<<"SWE">>, <<"Beta">>, << <<"Remote">> >>), <<>>),
      Msg("ok", TRUE, AppliedSubject(<<"Acme">>), DateHdr(2023, 6, 1),
          AppliedBody(<<"SWE">>, <<"Acme">>, << <<"Remote">> >>), <<>>),
      Msg("ok", FALSE, AppliedSubject(<<"Beta">>), DateHdr(2024, 3, 5),
          AppliedBody(<<"SWE">>, <<"Beta">>, << <<"NYC">> >>), <<>>),
      Msg("http_error", TRUE, <<>>, NoDateHdr, <<>>, <<>>) }

Para(text) == [tag |-> "p", brand |-> FALSE, text |-> text]
Link(text) == [tag |-> "a", brand |-> TRUE, text |-> text]

NotifSubject == <<"LinkedIn update">>

NotifMsgs ==
    { Msg("ok", TRUE, NotifSubject, DateHdr(2024, 3, 5), <<>>,
          <<Link(<<"SWE">>), Para(<<"Acme", BLANK, MIDDOT>>)>>),
      Msg("ok", TRUE, NotifSubject, DateHdr(2025, 1, 10), <<>>,
          <<Link(<<"swe">>), Para(<<"acme", BLANK, MIDDOT, BLANK, "NYC">>)>>),
      Msg("ok", TRUE, NotifSubject, DateHdr(2023, 6, 1), <<>>,
          <<Link(<<"SWE">>), Para(<<"Acme", BLANK, MIDDOT, BLANK, "NYC">>)>>),
      Msg("ok", TRUE, <<APPLICATION_TO, BLANK, "SWE", BLANK, "at", BLANK, "Beta">>,
          NoDateHdr, <<>>, <<>>),
      Msg("ok", TRUE, <<VIEWED_BY, BLANK, "Acme">>, DateHdr(2024, 3, 5), <<>>,
          <<Para(<<"footer">>)>>),
      Msg("ok", TRUE, NotifSubject, DateHdr(2024, 3, 5), <<>>,
          <<Link(<<"SWE">>), Para(<<"Beta", BLANK, MIDDOT, BLANK, "Not Found">>)>>),
      Msg("ok", TRUE, NotifSubject, DateHdr(2024, 3, 5), <<>>,
          <<Para(<<"footer">>)>>),
      Msg("http_error", TRUE, <<>>, NoDateHdr, <<>>, <<>>) }

MsgsOf(label) == IF label = LABEL_APPLIED THEN AppliedMsgs ELSE NotifMsgs

SeqsUpTo(S, n) == UNION {[1..k -> S] : k \in 0..n}

\* ------------------------------------------------------------------------
\* get_plain_text_body and get_html_body (utils/email_utils.py:63-99).
\* A message is [multipart, parts]: parts are the leaf parts in the order
\* of msg.walk(); a message that is not multipart is its own single part.
\* A part is [ctype, cdispo, payload]: cdispo is the Content-Disposition
\* header ("None" when absent) and payload the bytes of
\* get_payload(decode=True).
\* ------------------------------------------------------------------------

\* the character of a byte of a UTF-8 text, "" for a byte that is not valid
chr_of(b) ==
    CASE b = 72 -> "H"
      [] b = 49 -> "1" [] b = 50 -> "2" [] b = 51 -> "3" [] b = 52 -> "4"
      [] OTHER -> ""

\* bytes.decode('utf-8', errors='ignore')
decode_utf8_ignore(payload) ==
    LET valid == SelectSeq(payload, LAMBDA b : chr_of(b) # "")
    IN [i \in 1..Len(valid) |-> chr_of(valid[i])]

\* 'attachment' not in cdispo
not_attachment(part) == part.cdispo # "attachment"

\* the first part of the walk with the content type that is no attachment,
\* 0 if there is none
first_part(msg, ctype) ==
    LET hits == {i \in 1..Len(msg.parts) :
                    msg.parts[i].ctype = ctype /\ not_attachment(msg.parts[i])}
    IN IF hits = {} THEN 0 ELSE Min(hits)

get_plain_text_body(msg) ==
    IF msg.multipart
    THEN IF first_part(msg, "text/plain") = 0 THEN <<>>
         ELSE decode_utf8_ignore(msg.parts[first_part(msg, "text/plain")].payload)
    ELSE decode_utf8_ignore(msg.parts[1].payload)

get_html_body(msg) ==
    IF msg.multipart
    THEN IF first_part(msg, "text/html") = 0 THEN <<>>
         ELSE decode_utf8_ignore(msg.parts[first_part(msg, "text/html")].payload)
    ELSE IF msg.parts[1].ctype = "text/html"
    THEN decode_utf8_ignore(msg.parts[1].payload)
    ELSE <<>>

\* ------------------------------------------------------------------------
\* State of one run of process_gmail_labels_to_csv (processor.py:160-381)
\* ------------------------------------------------------------------------

VARIABLES
    mailbox,            \* label -> the messages Gmail holds under it
    pc,                 \* "fetch", "loop", "final" or "done"
    phase,              \* position in LabelOrder of the label being processed
    messages,           \* ids (mailbox positions) returned by fetch_messages
    index,              \* position in messages of the next message
    job_applications,   \* key -> record
    key_order,          \* insertion order of the keys of job_applications
    failure_log,        \* list of failure records
    failure_file,       \* rows of the failure log CSV file
    output,             \* rows of the main report, <<>> until written
    report_header,      \* header line of the main report, <<>> until written
    arg,                \* the input of a parsing function called on its own
    result              \* what that call returned

vars == <<mailbox, pc, phase, messages, index, job_applications, key_order,
          failure_log, failure_file, output, report_header, arg, result>>

\* a run that handles the Applied label last
LabelOrder_AppliedLast == <<LABEL_VIEWED, LABEL_REJECTED, LABEL_APPLIED>>

\* a run that handles the Viewed label before the Applied label
LabelOrder_ViewedFirst == <<LABEL_VIEWED, LABEL_APPLIED, LABEL_REJECTED>>

\* Phase 1 processes LinkedIn/Applied, Phase 2 the list labels_to_verify;
\* both callers pass target_labels_to_process = LABELS (main.py:74,
\* main_window.py:693)
LabelOrder == <<LABEL_APPLIED, LABEL_VIEWED, LABEL_REJECTED>>

\* label_name.split('/')[-1]
status_of(label) ==
    CASE label = LABEL_APPLIED -> "Applied"
      [] label = LABEL_VIEWED -> "Viewed"
      [] label = LABEL_REJECTED -> "Rejected"

\* get_full_message: the message, given its id
get_full_message(label, id) == mailbox[label][id]

\* an assignment that drops every other entry of the dict
dict_set_fresh(d, key, rec) == (key :> rec)

\* d[key] = rec on a dict and on its insertion order
dict_set(d, key, rec) == (key :> rec) @@ d
order_set(d, order, key) == IF key \in DOMAIN d THEN order ELSE Append(order, key)

\* ---- Phase 1, one Applied message (processor.py:191-234) ----------------

\* the key taken from the parsed fields as they are
applied_key_raw(parsed_info) == <<parsed_info.CompanyName, parsed_info.JobTitle>>

applied_key(parsed_info) ==
    <<strip(lower(parsed_info.CompanyName)), strip(lower(parsed_info.JobTitle))>>

applied_record(parsed_info, date_str, subject, comment) ==
    [CompanyName |-> parsed_info.CompanyName,
     JobTitle |-> parsed_info.JobTitle,
     Location |-> parsed_info.Location,
     Status |-> "Applied",
     Date |-> date_str,
     MetadataSubject |-> subject,
     Comment |-> comment]

applied_failure(id, row, total, reason, date_str, subject, comment) ==
    [EmailID |-> id, Label |-> LABEL_APPLIED, RowNumber |-> row,
     TotalEmails |-> total, Reason |-> reason, Date |-> date_str,
     CompanyName |-> <<"N/A">>, JobTitle |-> <<"N/A">>, Location |-> <<"N/A">>,
     Status |-> "Applied", Metadata |-> subject, Comment |-> comment]

\* the outcome of the try block: what is raised, if anything
applied_error(msg) ==
    IF msg.plain = <<>> THEN <<"No plain text body found.">>
    ELSE IF ~parse_applied_info(msg.plain).ok
    THEN parse_applied_info(msg.plain).reason
    ELSE <<>>

applied_subject(msg) == IF msg.subject # <<>> THEN msg.subject ELSE <<"No Subject">>

\* the message is neither unfetchable nor dropped by the date filter
applied_reaches_parser(msg) ==
    msg.fetch = "ok" /\ ~date_filtered(parse_date_header(msg.date))

applied_folds(msg) == applied_reaches_parser(msg) /\ applied_error(msg) = <<>>

\* the record an Applied message that folds is stored as
applied_record_of(msg) ==
    applied_record(parse_applied_info(msg.plain), parse_date_header(msg.date),
                   applied_subject(msg), generate_comment(applied_subject(msg)))

\* a store that keeps the first record of a key
store_applied_first_wins(d, key, rec) ==
    IF key \in DOMAIN d THEN d ELSE dict_set(d, key, rec)

\* job_applications[key] = {...} at processor.py:209
store_applied(d, key, rec) == dict_set(d, key, rec)

\* an Applied loop whose handler logs nothing for a message it cannot parse
ProcessAppliedMessage_silent(label, id, msg) ==
    IF applied_folds(msg)
    THEN /\ job_applications' =
                store_applied(job_applications, applied_key(parse_applied_info(msg.plain)),
                              applied_record_of(msg))
         /\ key_order' = order_set(job_applications, key_order,
                                   applied_key(parse_applied_info(msg.plain)))
         /\ UNCHANGED <<failure_log, failure_file>>
    ELSE UNCHANGED <<job_applications, key_order, failure_log, failure_file>>

\* one iteration of the Applied loop body (processor.py:191-234)
ProcessAppliedMessage(label, id, msg) ==
    LET subject == applied_subject(msg)
        date_str == parse_date_header(msg.date)
        comment == generate_comment(subject)
        parsed_info == parse_applied_info(msg.plain)
        key == applied_key(parsed_info)
        failure == applied_failure(id, index, Len(messages), applied_error(msg),
                                   date_str, subject, comment)
    IN IF ~applied_reaches_parser(msg)
       THEN UNCHANGED <<job_applications, key_order, failure_log, failure_file>>
       ELSE IF applied_error(msg) = <<>>
       THEN /\ job_applications' =
                   store_applied(job_applications, key, applied_record_of(msg))
            /\ key_order' = order_set(job_applications, key_order, key)
            /\ UNCHANGED <<failure_log, failure_file>>
       ELSE /\ failure_log' = Append(failure_log, failure)
            /\ failure_file' = failure_file \o failure_log'
            /\ UNCHANGED <<job_applications, key_order>>

\* ---- Phase 2, one Viewed/Rejected message (processor.py:245-356) --------

\* a key that files a notification without a title under the title "swe"
notif_key_default_title(company, title) == <<strip(lower(company)), IF title = <<>> THEN <<"swe">> ELSE strip(lower(title))>>

\* a key that is lower-cased but keeps its surrounding whitespace
notif_key_no_strip(company, title) == <<lower(company), lower(title)>>

\* key = (company.lower().strip(), title.lower().strip()) at processor.py:268
notif_key(company, title) == <<strip(lower(company)), strip(lower(title))>>

\* not location or location in ['Not Found', 'Location not specified', '']
location_is_generic(location) ==
    location = <<>> \/ location \in {<<"Not Found">>, <<"Location not specified">>}

\* the Applied emails of all time that give a location for the key
\* (processor.py:282-301)
lookup_hits(key) ==
    {i \in 1..Len(mailbox[LABEL_APPLIED]) :
        LET m == mailbox[LABEL_APPLIED][i]
            p == parse_applied_info(m.plain)
        IN /\ m.fetch = "ok"
           /\ m.plain # <<>>
           /\ p.ok
           /\ applied_key(p) = key
           /\ p.Location # <<>>}

find_better_location(location, key) ==
    IF location_is_generic(location) /\ lookup_hits(key) # {}
    THEN parse_applied_info(mailbox[LABEL_APPLIED][Min(lookup_hits(key))].plain).Location
    ELSE location

or_else(value, default) == IF value # <<>> THEN value ELSE default

unmatched_failure(id, label, date_str, company, title, better_location, current_status, subject, comment) ==
    [EmailID |-> id, Label |-> label,
     Reason |-> <<"Unmatched 'Viewed' email. Added to main report, but a matching 'Applied' record was not found in the selected date range. Location: ">>
                \o or_else(better_location, <<"Not Found">>),
     Date |-> date_str, CompanyName |-> company, JobTitle |-> title,
     Location |-> or_else(better_location, <<"Not Found">>),
     Status |-> current_status, Metadata |-> subject, Comment |-> comment]

\* no warning for unmatched records
log_unmatched_never(log, current_status, failure) == log

\* "Log warning for unmatched records" (processor.py:306-315)
log_unmatched(log, current_status, failure) ==
    IF current_status = "Viewed" THEN Append(log, failure) ELSE log

notif_failure(id, label, reason, date_str, parsed_info, current_status, subject, comment) ==
    [EmailID |-> id, Label |-> label, Reason |-> reason, Date |-> date_str,
     CompanyName |-> parsed_info.CompanyName, JobTitle |-> parsed_info.JobTitle,
     Location |-> parsed_info.Location,
     Status |-> current_status, Metadata |-> subject, Comment |-> comment]

\* a new record that takes the location without the placeholder
new_record_no_placeholder(company, title, better_location, current_status, date_str, subject) ==
    [CompanyName |-> company,
     JobTitle |-> title,
     Location |-> better_location,
     Status |-> current_status,
     Date |-> date_str,
     MetadataSubject |-> subject,
     Comment |-> <<current_status,
                   " email found without matching Applied record in date range">>]

\* a new record that carries one more field
new_record_extra_field(company, title, better_location, current_status, date_str, subject) ==
    [CompanyName |-> company,
     JobTitle |-> title,
     Location |-> or_else(better_location, <<"Location not found in date range">>),
     Status |-> current_status,
     Date |-> date_str,
     MetadataSubject |-> subject,
     Comment |-> <<current_status,
                   " email found without matching Applied record in date range">>,
     Warning |-> <<"unmatched">>]

\* the record created for a key with no record (processor.py:318-326)
new_record(company, title, better_location, current_status, date_str, subject) ==
    [CompanyName |-> company,
     JobTitle |-> title,
     Location |-> or_else(better_location, <<"Location not found in date range">>),
     Status |-> current_status,
     Date |-> date_str,
     MetadataSubject |-> subject,
     Comment |-> <<current_status,
                   " email found without matching Applied record in date range">>]

\* an upgrade that is also taken on equal priority
is_upgrade_or_equal(current_status, existing_record) ==
    get_status_priority(current_status) >= get_status_priority(existing_record.Status)

\* an upgrade that is taken whatever the priorities
is_upgrade_always(current_status, existing_record) == TRUE

\* the comparison at processor.py:330
is_upgrade(current_status, existing_record) ==
    get_status_priority(current_status) > get_status_priority(existing_record.Status)

\* an update that takes the notification's location
upgraded_record_new_location(existing_record, current_status, date_str, subject, location) ==
    [existing_record EXCEPT
        !.Status = current_status,
        !.Date = date_str,
        !.MetadataSubject = subject,
        !.Comment = <<"Status updated to ", current_status,
                      ". Original comment: ">> \o existing_record.Comment,
        !.Location = location]

\* an update that keeps the record's old date
upgraded_record_old_date(existing_record, current_status, date_str, subject, location) ==
    [existing_record EXCEPT
        !.Status = current_status,
        !.MetadataSubject = subject,
        !.Comment = <<"Status updated to ", current_status,
                      ". Original comment: ">> \o existing_record.Comment]

\* an update whose comment drops the record's old comment
upgraded_record_new_comment(existing_record, current_status, date_str, subject, location) ==
    [existing_record EXCEPT
        !.Status = current_status,
        !.Date = date_str,
        !.MetadataSubject = subject,
        !.Comment = <<"Status updated to ", current_status, ". Original comment: ">>]

\* an update that stops after the Status assignment
upgraded_record_status_only(existing_record, current_status, date_str, subject, location) ==
    [existing_record EXCEPT !.Status = current_status]

\* the in-place update of processor.py:331-344
upgraded_record(existing_record, current_status, date_str, subject, location) ==
    LET original_comment == existing_record.Comment
        original_location == existing_record.Location
    IN [existing_record EXCEPT
           !.Status = current_status,
           !.Date = date_str,
           !.MetadataSubject = subject,
           !.Comment = <<"Status updated to ", current_status,
                         ". Original comment: ">> \o original_comment,
           !.Location = IF original_location = <<>> /\ location # <<>>
                        THEN location ELSE original_location]

notif_reaches_parser(msg) ==
    msg.fetch = "ok" /\ ~date_filtered(parse_date_header(msg.date))

notif_parsed(msg) == parse_viewed_rejected_info(msg.html, msg.subject)

\* the message reaches the matching logic (no critical parse failure)
notif_folds(msg) == notif_reaches_parser(msg) /\ notif_parsed(msg).error = <<>>

notif_key_of(msg) == notif_key(notif_parsed(msg).CompanyName, notif_parsed(msg).JobTitle)

ProcessNotifMessage(label, id, msg) ==
    LET subject == msg.subject
        date_str == parse_date_header(msg.date)
        comment == generate_comment(subject)
        current_status == status_of(label)
        parsed_info == notif_parsed(msg)
        company == parsed_info.CompanyName
        title == parsed_info.JobTitle
        location == parsed_info.Location
        key == notif_key(company, title)
        better_location == find_better_location(location, key)
    IN IF ~notif_reaches_parser(msg)
       THEN UNCHANGED <<job_applications, key_order, failure_log>>
       ELSE IF parsed_info.error # <<>>
       THEN /\ failure_log' =
                   Append(failure_log,
                          notif_failure(id, label, parsed_info.error, date_str,
                                        parsed_info, current_status, subject, comment))
            /\ UNCHANGED <<job_applications, key_order>>
       ELSE IF key \notin DOMAIN job_applications
       THEN /\ failure_log' =
                   log_unmatched(failure_log, current_status,
                                 unmatched_failure(id, label, date_str, company, title,
                                                   better_location, current_status,
                                                   subject, comment))
            /\ job_applications' =
                   dict_set(job_applications, key,
                            new_record(company, title, better_location,
                                       current_status, date_str, subject))
            /\ key_order' = order_set(job_applications, key_order, key)
       ELSE IF is_upgrade(current_status, job_applications[key])
       THEN /\ job_applications' =
                   dict_set(job_applications, key,
                            upgraded_record(job_applications[key], current_status,
                                            date_str, subject, location))
            /\ UNCHANGED <<key_order, failure_log>>
       ELSE UNCHANGED <<job_applications, key_order, failure_log>>

\* ---- Control flow ------------------------------------------------------

TotalMessages ==
    Len(mailbox[LABEL_APPLIED]) + Len(mailbox[LABEL_VIEWED]) + Len(mailbox[LABEL_REJECTED])

\* the ids fetch_messages returns for the run's date query: the positions
\* of the selected messages, in mailbox order
in_range_ids(box) ==
    LET ids == {i \in 1..Len(box) : box[i].inRange}
        rank(i) == Cardinality({j \in ids : j <= i})
    IN [n \in 1..Cardinality(ids) |-> CHOOSE i \in ids : rank(i) = n]

\* where control goes after the loop over a label's messages
AfterLabel(ph) == IF ph < Len(LabelOrder) THEN "fetch" ELSE "final"

CurrentLabel == LabelOrder[phase]

Init ==
    /\ mailbox = [l \in LABELS |-> <<>>]
    /\ pc = "fetch"
    /\ phase = 1
    /\ messages = <<>>
    /\ index = 1
    /\ job_applications = <<>>
    /\ key_order = <<>>
    /\ failure_log = <<>>
    /\ failure_file = <<>>
    /\ output = <<>>
    /\ report_header = <<>>
    /\ arg = [fn |-> "process_gmail_labels_to_csv"]
    /\ result = [done |-> FALSE]

\* fetch_messages(service, label, date_query) at processor.py:189 and :243
FetchMessages ==
    /\ pc = "fetch"
    /\ \E box \in SeqsUpTo(MsgsOf(CurrentLabel), MaxMsgs - TotalMessages) :
        /\ mailbox' = [mailbox EXCEPT ![CurrentLabel] = box]
        /\ messages' = in_range_ids(box)
        /\ index' = 1
        /\ IF in_range_ids(box) = <<>>
           THEN /\ pc' = AfterLabel(phase)
                /\ phase' = IF phase < Len(LabelOrder) THEN phase + 1 ELSE phase
           ELSE /\ pc' = "loop"
                /\ phase' = phase
    /\ UNCHANGED <<job_applications, key_order, failure_log, failure_file, output>>
    /\ UNCHANGED <<report_header, arg, result>>

\* the loop bookkeeping shared by both loops
Advance ==
    /\ index' = index + 1
    /\ IF index = Len(messages)
       THEN /\ pc' = AfterLabel(phase)
            /\ phase' = IF phase < Len(LabelOrder) THEN phase + 1 ELSE phase
       ELSE /\ pc' = "loop"
            /\ phase' = phase
    /\ UNCHANGED <<mailbox, messages, output, report_header, arg, result>>

\* one iteration of the loop at processor.py:191
ProcessApplied ==
    /\ pc = "loop"
    /\ CurrentLabel = LABEL_APPLIED
    /\ ProcessAppliedMessage(CurrentLabel, messages[index],
                             get_full_message(CurrentLabel, messages[index]))
    /\ Advance

\* one iteration of the loop at processor.py:245
ProcessViewedRejected ==
    /\ pc = "loop"
    /\ CurrentLabel # LABEL_APPLIED
    /\ ProcessNotifMessage(CurrentLabel, messages[index],
                           get_full_message(CurrentLabel, messages[index]))
    /\ UNCHANGED failure_file
    /\ Advance

\* the columns of the main report (write_data_to_csv, processor.py:139)
fieldnames ==
    <<"Company Name", "Job Title", "Status", "Date", "Location", "Metadata Subject",
      "Comment">>

\* processor.py:359-364
WriteOutput ==
    /\ pc = "final"
    /\ failure_file' = IF failure_log # <<>> THEN failure_file \o failure_log
                       ELSE failure_file
    /\ report_header' = fieldnames
    /\ output' = [i \in 1..Len(key_order) |-> job_applications[key_order[i]]]
    /\ pc' = "done"
    /\ UNCHANGED <<mailbox, phase, messages, index, job_applications, key_order,
                   failure_log, arg, result>>

Next == FetchMessages \/ ProcessApplied \/ ProcessViewedRejected \/ WriteOutput

Spec == Init /\ [][Next]_vars

\* ------------------------------------------------------------------------
\* The key computation and the two parsers called on their own: one call
\* of one function on one input
\* ------------------------------------------------------------------------

\* longest company name or job title given to the key computation
MaxNameLen == 3

\* most lines of a plain text body given to parse_applied_info
MaxBodyLines == 5

CompanySyms == {"Acme", "acme", "Corp", "corp", BLANK}
TitleSyms == {"SWE", "swe", BLANK}

KeyArgs ==
    {[fn |-> "key", company |-> c, title |-> t] :
        c \in SeqsUpTo(CompanySyms, MaxNameLen), t \in SeqsUpTo(TitleSyms, MaxNameLen)}

\* the lines a plain text body is made of
BodyLines ==
    { <<ANCHOR, BLANK, "Acme">>, <<>>, <<BLANK>>, <<BLANK, "SWE">>,
      <<"Acme", BLANK>>, <<"Remote">> }

AppliedArgs ==
    {[fn |-> "parse_applied_info", lines |-> b] : b \in SeqsUpTo(BodyLines, MaxBodyLines)}

\* what the HTML body shows as company, location and job title (<<>>: not
\* shown) and what the subject line is made of
HtmlCompanies ==
    { <<>>, <<"Acme">>, <<"A", "&amp;", "B">>, <<"Acme", "&nbsp;", "Corp">>,
      <<"Acme", BLANK, BLANK, "Corp">> }
HtmlLocations == { <<>>, <<"NYC">>, <<"New", BLANK, BLANK, "York">>, <<"Not Found">> }
HtmlTitles == { <<>>, <<"SWE">>, <<"R", "&amp;", "D">> }
SubjectForms == {"other", "viewed by", "application to", "application to without at"}
SubjectTitles == { <<"Backend", BLANK, "Engineer">>, <<"SWE">> }
SubjectCompanies == { <<"Beta", BLANK, "Inc">>, <<"A", "&amp;", "B">> }

\* an HTML body with a brand-coloured job title link, a
\* "company (middot) location" paragraph and a footer paragraph
HtmlOf(hc, hl, ht) ==
    (IF ht = <<>> THEN <<>> ELSE <<Link(<<BLANK>> \o ht \o <<BLANK>>)>>)
    \o (IF hc = <<>> /\ hl = <<>>
        THEN <<>>
        ELSE <<Para(<<BLANK>> \o hc \o <<BLANK, MIDDOT, BLANK>> \o hl \o <<BLANK>>)>>)
    \o <<Para(<<"footer">>)>>

SubjectOf(form, st, sc) ==
    CASE form = "viewed by" -> <<VIEWED_BY, BLANK>> \o sc
      [] form = "application to" ->
            <<APPLICATION_TO, BLANK>> \o st \o <<BLANK, "at", BLANK>> \o sc
      [] form = "application to without at" -> <<APPLICATION_TO, BLANK>> \o st
      [] OTHER -> NotifSubject

NotifArgs ==
    {[fn |-> "parse_viewed_rejected_info",
      html |-> HtmlOf(hc, hl, ht), subject |-> SubjectOf(form, st, sc),
      hc |-> hc, hl |-> hl, ht |-> ht, form |-> form, st |-> st, sc |-> sc] :
        hc \in HtmlCompanies, hl \in HtmlLocations, ht \in HtmlTitles,
        form \in SubjectForms, st \in SubjectTitles, sc \in SubjectCompanies}

\* Date headers given to parse_date_header
DateHeaders ==
    {DateHdr(y, m, d) : y \in {2023, 2024, 2025}, m \in {1, 12}, d \in {1, 28}}
       \cup {NoDateHdr, BadDateHdr, OverflowDateHdr}

DateArgs == {[fn |-> "parse_date_header", header |-> h] : h \in DateHeaders}

\* most notifications of one key given to the matching logic
MaxNotifs == 4

\* the map entry of a key that has no record
NoRecord == [Status |-> "none"]

\* the matching logic of processor.py:273-344 applied to the notifications
\* of one key (Acme / SWE), given by their statuses in processing order
RECURSIVE fold_notifications(_, _)
fold_notifications(existing_record, statuses) ==
    IF statuses = <<>> THEN existing_record
    ELSE LET current_status == Head(statuses)
             date_str == IF current_status = "Viewed" THEN <<2024, 3, 5>>
                         ELSE <<2024, 4, 1>>
             after == IF existing_record = NoRecord
                      THEN new_record(<<"Acme">>, <<"SWE">>, <<"NYC">>, current_status,
                                      date_str, NotifSubject)
                      ELSE IF is_upgrade(current_status, existing_record)
                      THEN upgraded_record(existing_record, current_status, date_str,
                                           NotifSubject, <<"NYC">>)
                      ELSE existing_record
         IN fold_notifications(after, Tail(statuses))

\* the record of the key before the notifications: none, or one seeded by
\* an Applied email
SeedRecord(seeded) ==
    IF seeded
    THEN applied_record([CompanyName |-> <<"Acme">>, JobTitle |-> <<"SWE">>,
                         Location |-> <<"Remote">>],
                        <<2024, 1, 10>>, AppliedSubject(<<"Acme">>),
                        generate_comment(AppliedSubject(<<"Acme">>)))
    ELSE NoRecord

FoldArgs ==
    {[fn |-> "fold", seeded |-> b, statuses |-> q] :
        b \in BOOLEAN, q \in SeqsUpTo({"Viewed", "Rejected"}, MaxNotifs)}

\* most leaf parts of a multipart message given to the body functions
MaxParts == 3

ContentTypes == {"text/plain", "text/html", "image/png"}
Dispositions == {"None", "inline", "attachment"}

\* the payload of the part at position i: "H", a byte that is not valid
\* UTF-8 and the digit i
PayloadAt(i) == <<72, 255, 48 + i>>

\* the messages given to the body functions: multipart ones with up to
\* MaxParts leaf parts and single-part ones
MimeMessages ==
    LET kinds == ContentTypes \X Dispositions
        mk(multi, ks) ==
            [multipart |-> multi,
             parts |-> [i \in 1..Len(ks) |->
                          [ctype |-> ks[i][1], cdispo |-> ks[i][2],
                           payload |-> PayloadAt(i)]]]
    IN {mk(TRUE, ks) : ks \in SeqsUpTo(kinds, MaxParts)}
          \cup {mk(FALSE, <<k>>) : k \in kinds}

BodyArgs == {[fn |-> "get_body", msg |-> m] : m \in MimeMessages}

InitParsers ==
    /\ mailbox = [l \in LABELS |-> <<>>]
    /\ pc = "fetch"
    /\ phase = 1
    /\ messages = <<>>
    /\ index = 1
    /\ job_applications = <<>>
    /\ key_order = <<>>
    /\ failure_log = <<>>
    /\ failure_file = <<>>
    /\ output = <<>>
    /\ report_header = <<>>
    /\ \/ arg \in KeyArgs
       \/ arg \in AppliedArgs
       \/ arg \in NotifArgs
       \/ arg \in DateArgs
       \/ arg \in BodyArgs
       \/ arg \in FoldArgs
    /\ result = [done |-> FALSE]

\* the key of processor.py:208 and the key of processor.py:268
ApplyKey ==
    /\ arg.fn = "key"
    /\ ~result.done
    /\ result' = [done |-> TRUE,
                  applied |-> applied_key([CompanyName |-> arg.company,
                                           JobTitle |-> arg.title]),
                  notif |-> notif_key(arg.company, arg.title)]
    /\ UNCHANGED <<mailbox, pc, phase, messages, index, job_applications, key_order,
                   failure_log, failure_file, output, report_header, arg>>

\* parsed_info = parse_applied_info(body) and the record stored from it
\* (processor.py:206-217)
ApplyParseApplied ==
    /\ arg.fn = "parse_applied_info"
    /\ ~result.done
    /\ LET parsed_info == parse_applied_info(arg.lines)
           subject == AppliedSubject(<<"Acme">>)
       IN result' = [done |-> TRUE,
                     info |-> parsed_info,
                     record |-> IF parsed_info.ok
                                THEN applied_record(parsed_info, <<2024, 3, 5>>, subject,
                                                    generate_comment(subject))
                                ELSE [Status |-> "ValueError"]]
    /\ UNCHANGED <<mailbox, pc, phase, messages, index, job_applications, key_order,
                   failure_log, failure_file, output, report_header, arg>>

\* parsed_info = parse_viewed_rejected_info(html_body, subject)
\* (processor.py:263)
ApplyParseViewedRejected ==
    /\ arg.fn = "parse_viewed_rejected_info"
    /\ ~result.done
    /\ result' = [done |-> TRUE,
                  info |-> parse_viewed_rejected_info(arg.html, arg.subject)]
    /\ UNCHANGED <<mailbox, pc, phase, messages, index, job_applications, key_order,
                   failure_log, failure_file, output, report_header, arg>>

\* date_str = parse_date_header(msg_full['date']) (processor.py:196, :250)
ApplyParseDateHeader ==
    /\ arg.fn = "parse_date_header"
    /\ ~result.done
    /\ result' = IF parse_date_header_raises(arg.header) # ""
                 THEN [done |-> TRUE, raised |-> parse_date_header_raises(arg.header)]
                 ELSE [done |-> TRUE, raised |-> "",
                       date_str |-> parse_date_header(arg.header)]
    /\ UNCHANGED <<mailbox, pc, phase, messages, index, job_applications, key_order,
                   failure_log, failure_file, output, report_header, arg>>

\* body = get_plain_text_body(msg_full) (processor.py:203) and
\* html_body = get_html_body(msg_full) (processor.py:259)
ApplyGetBody ==
    /\ arg.fn = "get_body"
    /\ ~result.done
    /\ result' = [done |-> TRUE,
                  plain |-> get_plain_text_body(arg.msg),
                  html |-> get_html_body(arg.msg)]
    /\ UNCHANGED <<mailbox, pc, phase, messages, index, job_applications, key_order,
                   failure_log, failure_file, output, report_header, arg>>

\* the notifications of one key handled one after the other
\* (processor.py:245-344)
ApplyFold ==
    /\ arg.fn = "fold"
    /\ ~result.done
    /\ result' = [done |-> TRUE,
                  final |-> fold_notifications(SeedRecord(arg.seeded), arg.statuses)]
    /\ UNCHANGED <<mailbox, pc, phase, messages, index, job_applications, key_order,
                   failure_log, failure_file, output, report_header, arg>>

NextParsers ==
    \/ ApplyKey
    \/ ApplyParseApplied
    \/ ApplyParseViewedRejected
    \/ ApplyParseDateHeader
    \/ ApplyGetBody
    \/ ApplyFold

SpecParsers == InitParsers /\ [][NextParsers]_vars

\* ========================================================================
\* Properties
\* ========================================================================

\* the status priority of the data model: Applied=1 < Viewed=2 < Rejected=3
Rank(status) ==
    CASE status = "Applied" -> 1 [] status = "Viewed" -> 2 [] status = "Rejected" -> 3

\* the ApplicationKey of the data model
NormKey(company, title) == <<lower(strip(company)), lower(strip(title))>>

KeyOfRecord(rec) == NormKey(rec.CompanyName, rec.JobTitle)

InAppliedLoop == pc = "loop" /\ CurrentLabel = LABEL_APPLIED
InNotifLoop == pc = "loop" /\ CurrentLabel # LABEL_APPLIED

\* the message the next loop iteration handles
CurMsg == get_full_message(CurrentLabel, messages[index])

UPDATED == "Status updated to "

IsUpgraded(rec) == Len(rec.Comment) >= 3 /\ rec.Comment[1] = UPDATED

\* C1: every change of a record's Status within a run strictly increases
\* its priority (Applied < Viewed < Rejected); a record that is Rejected
\* stays Rejected.
C1_StatusOnlyIncreases ==
    [][\A k \in DOMAIN job_applications :
          /\ k \in DOMAIN job_applications'
          /\ (job_applications'[k].Status # job_applications[k].Status
                => Rank(job_applications'[k].Status) > Rank(job_applications[k].Status))
          /\ (job_applications[k].Status = "Rejected"
                => job_applications'[k].Status = "Rejected")]_vars

\* a record that went Applied -> Viewed -> Rejected
C1_Witness ==
    \E k \in DOMAIN job_applications :
        LET c == job_applications[k].Comment
        IN /\ job_applications[k].Status = "Rejected"
           /\ Len(c) >= 6
           /\ c[1] = UPDATED /\ c[2] = "Rejected"
           /\ c[4] = UPDATED /\ c[5] = "Viewed"

\* C2: the map holds at most one record per ApplicationKey, and every
\* record is stored under the key obtained by normalizing its own Company
\* Name and Job Title.
C2_OneRecordPerKey ==
    /\ \A k \in DOMAIN job_applications : k = KeyOfRecord(job_applications[k])
    /\ \A k1, k2 \in DOMAIN job_applications :
          KeyOfRecord(job_applications[k1]) = KeyOfRecord(job_applications[k2])
             => k1 = k2

\* two records, one of them with a Company Name that differs from its key
C2_Witness ==
    /\ Cardinality(DOMAIN job_applications) >= 2
    /\ \E k \in DOMAIN job_applications : job_applications[k].CompanyName # k[1]

\* every Applied message the run selects and can parse has its key in the map
AllAppliedFolded ==
    \A i \in 1..Len(mailbox[LABEL_APPLIED]) :
        LET m == mailbox[LABEL_APPLIED][i]
        IN m.inRange /\ applied_folds(m)
              => KeyOfRecord(applied_record_of(m)) \in DOMAIN job_applications

\* C3: labels are processed in a fixed order: while Applied messages are
\* handled no Viewed/Rejected message has been fetched, and once a
\* Viewed/Rejected message is handled every Applied message has been
\* folded and no record with Status Applied is created or changed.
C3_AppliedFirst ==
    [][/\ InAppliedLoop
          => mailbox[LABEL_VIEWED] = <<>> /\ mailbox[LABEL_REJECTED] = <<>>
       /\ InNotifLoop
          => /\ AllAppliedFolded
             /\ \A k \in DOMAIN job_applications' :
                   job_applications'[k].Status = "Applied"
                      => /\ k \in DOMAIN job_applications
                         /\ job_applications'[k] = job_applications[k]]_vars

\* a Rejected message is about to be handled while the map holds a record
\* seeded by an Applied message and Viewed messages have been handled
C3_Witness ==
    /\ pc = "loop"
    /\ CurrentLabel = LABEL_REJECTED
    /\ mailbox[LABEL_VIEWED] # <<>>
    /\ \E k \in DOMAIN job_applications : job_applications[k].Status = "Applied"

\* the positions in the Applied mailbox of the messages folded under key k
AppliedFoldedAt(k) ==
    {i \in 1..Len(mailbox[LABEL_APPLIED]) :
        LET m == mailbox[LABEL_APPLIED][i]
        IN m.inRange /\ applied_folds(m) /\ KeyOfRecord(applied_record_of(m)) = k}

\* every record seeded by an Applied email still has that email's Location
AppliedLocationKept ==
    \A k \in DOMAIN job_applications :
        AppliedFoldedAt(k) # {}
           => job_applications[k].Location =
                 parse_applied_info(
                     mailbox[LABEL_APPLIED][Max(AppliedFoldedAt(k))].plain).Location

\* C4: a Viewed/Rejected message changes the Location of an existing record
\* only when that Location is empty, and then to the notification's
\* Location; so a record created from an Applied email keeps the Location
\* parsed from that email.
C4_LocationPreserved ==
    [][/\ InNotifLoop
          => \A k \in DOMAIN job_applications :
                /\ k \in DOMAIN job_applications'
                /\ (job_applications'[k].Location # job_applications[k].Location
                      => /\ job_applications[k].Location = <<>>
                         /\ job_applications'[k].Location = notif_parsed(CurMsg).Location)
       /\ (InNotifLoop \/ pc = "final") => AppliedLocationKept]_vars

\* a record seeded by an Applied email was upgraded by a notification that
\* carries another, non-empty Location
C4_Witness ==
    \E k \in DOMAIN job_applications :
        /\ IsUpgraded(job_applications[k])
        /\ AppliedFoldedAt(k) # {}
        /\ \E l \in {LABEL_VIEWED, LABEL_REJECTED} :
              \E i \in 1..Len(mailbox[l]) :
                 LET m == mailbox[l][i]
                 IN /\ notif_folds(m)
                    /\ notif_key_of(m) = k
                    /\ job_applications[k].MetadataSubject = m.subject
                    /\ job_applications[k].Date = parse_date_header(m.date)
                    /\ notif_parsed(m).Location # <<>>
                    /\ notif_parsed(m).Location # job_applications[k].Location

\* the current notification parses and its key has a record
NotifMatches ==
    /\ InNotifLoop
    /\ notif_folds(CurMsg)
    /\ notif_key_of(CurMsg) \in DOMAIN job_applications

\* C5: a parsed Viewed/Rejected message whose key has a record of lower
\* priority sets the record's Status, Date and Metadata Subject to its own
\* status, date and subject and keeps Company Name and Job Title.
C5_UpgradeSetsFields ==
    [][(/\ NotifMatches
        /\ Rank(status_of(CurrentLabel))
              > Rank(job_applications[notif_key_of(CurMsg)].Status))
         => LET k == notif_key_of(CurMsg)
                old == job_applications[k]
                new == job_applications'[k]
            IN /\ k \in DOMAIN job_applications'
               /\ new.Status = status_of(CurrentLabel)
               /\ new.Date = parse_date_header(CurMsg.date)
               /\ new.MetadataSubject = CurMsg.subject
               /\ new.CompanyName = old.CompanyName
               /\ new.JobTitle = old.JobTitle]_vars

\* a record seeded by an Applied email now carries the status, date and
\* subject of a notification written with another spelling of the names
C5_Witness ==
    \E k \in DOMAIN job_applications :
        LET rec == job_applications[k]
        IN /\ IsUpgraded(rec)
           /\ rec.Status = "Viewed"
           /\ rec.MetadataSubject = NotifSubject
           /\ \E i \in AppliedFoldedAt(k) :
                 /\ applied_record_of(mailbox[LABEL_APPLIED][i]).Date # rec.Date
                 /\ applied_record_of(mailbox[LABEL_APPLIED][i]).CompanyName
                       = rec.CompanyName
           /\ \E i \in 1..Len(mailbox[LABEL_VIEWED]) :
                 /\ notif_folds(mailbox[LABEL_VIEWED][i])
                 /\ notif_key_of(mailbox[LABEL_VIEWED][i]) = k
                 /\ notif_parsed(mailbox[LABEL_VIEWED][i]).CompanyName # rec.CompanyName

\* C6: a parsed Viewed/Rejected message whose key has a record of equal or
\* higher priority leaves the record's Status, Date, Metadata Subject and
\* Comment unchanged and creates no record.
C6_NoUpgradeNoChange ==
    [][(/\ NotifMatches
        /\ ~(Rank(status_of(CurrentLabel))
                > Rank(job_applications[notif_key_of(CurMsg)].Status)))
         => LET k == notif_key_of(CurMsg)
            IN /\ DOMAIN job_applications' = DOMAIN job_applications
               /\ job_applications'[k].Status = job_applications[k].Status
               /\ job_applications'[k].Date = job_applications[k].Date
               /\ job_applications'[k].MetadataSubject
                     = job_applications[k].MetadataSubject
               /\ job_applications'[k].Comment = job_applications[k].Comment]_vars

\* two Viewed messages with different dates for one key have both been handled
C6_Witness ==
    /\ pc = "done"
    /\ \E i, j \in 1..Len(mailbox[LABEL_VIEWED]) :
          /\ i < j
          /\ notif_folds(mailbox[LABEL_VIEWED][i])
          /\ notif_folds(mailbox[LABEL_VIEWED][j])
          /\ notif_key_of(mailbox[LABEL_VIEWED][i]) = notif_key_of(mailbox[LABEL_VIEWED][j])
          /\ mailbox[LABEL_VIEWED][i].date # mailbox[LABEL_VIEWED][j].date

\* C7: status priority is the sole ordering signal, whatever the dates: at
\* the end of a run every record's Status is at least as high as that of
\* every Viewed/Rejected notification of the run that parses to its key
\* (a Rejected of 2023 outranks a Viewed of 2024).
C7_PriorityIgnoresDates ==
    pc = "done"
       => \A k \in DOMAIN job_applications :
             \A l \in {LABEL_VIEWED, LABEL_REJECTED} :
                \A i \in 1..Len(mailbox[l]) :
                   LET m == mailbox[l][i]
                   IN (/\ m.inRange
                       /\ m.fetch = "ok"
                       /\ notif_parsed(m).error = <<>>
                       /\ notif_key_of(m) = k)
                         => Rank(job_applications[k].Status) >= Rank(status_of(l))

\* the state after the loop over the Applied messages
EndOfAppliedPhase == pc = "fetch" /\ phase = 2

\* the positions in the fetched Applied list of the messages folded under k
FoldedInList(k) ==
    {n \in 1..Len(messages) :
        LET m == mailbox[LABEL_APPLIED][messages[n]]
        IN applied_folds(m) /\ KeyOfRecord(applied_record_of(m)) = k}

\* C8: at the end of the Applied phase the record of a key is exactly the
\* record built from the last successfully parsed Applied email of that key
\* in mailbox order (last write wins, nothing merged).
C8_LastAppliedWins ==
    EndOfAppliedPhase
       => /\ \A k \in DOMAIN job_applications :
                /\ FoldedInList(k) # {}
                /\ job_applications[k] =
                      applied_record_of(
                          mailbox[LABEL_APPLIED][messages[Max(FoldedInList(k))]])
          /\ \A n \in 1..Len(messages) :
                applied_folds(mailbox[LABEL_APPLIED][messages[n]])
                   => KeyOfRecord(applied_record_of(mailbox[LABEL_APPLIED][messages[n]]))
                         \in DOMAIN job_applications

\* two Applied emails of one key with different locations, dates and
\* spellings have been folded
C8_Witness ==
    /\ EndOfAppliedPhase
    /\ \E k \in DOMAIN job_applications :
          \E a, b \in FoldedInList(k) :
             LET ra == applied_record_of(mailbox[LABEL_APPLIED][messages[a]])
                 rb == applied_record_of(mailbox[LABEL_APPLIED][messages[b]])
             IN /\ a < b
                /\ ra.Location # rb.Location
                /\ ra.Date # rb.Date
                /\ ra.CompanyName # rb.CompanyName

\* the current notification parses and its key has no record
NotifUnmatched ==
    /\ InNotifLoop
    /\ notif_folds(CurMsg)
    /\ notif_key_of(CurMsg) \notin DOMAIN job_applications

\* C9 as claimed: a parsed Viewed/Rejected message whose key has no record
\* creates a record whose Company Name, Job Title and Location are the
\* parsed fields and whose Status is the notification's status.
C9_NewRecordHasParsedFields ==
    [][NotifUnmatched
         => LET k == notif_key_of(CurMsg)
            IN /\ k \in DOMAIN job_applications'
               /\ job_applications'[k].CompanyName = notif_parsed(CurMsg).CompanyName
               /\ job_applications'[k].JobTitle = notif_parsed(CurMsg).JobTitle
               /\ job_applications'[k].Location = notif_parsed(CurMsg).Location
               /\ job_applications'[k].Status = status_of(CurrentLabel)]_vars

PLACEHOLDER == <<"Location not found in date range">>

\* the Applied emails of the mailbox, of any date, that parse to key k
AppliedOfAllTime(k) ==
    {i \in 1..Len(mailbox[LABEL_APPLIED]) :
        /\ mailbox[LABEL_APPLIED][i].fetch = "ok"
        /\ parse_applied_info(mailbox[LABEL_APPLIED][i].plain).ok
        /\ KeyOfRecord(applied_record_of(mailbox[LABEL_APPLIED][i])) = k}

\* the Location of a record created from a notification with parsed
\* location loc and key k
ExpectedNewLocation(loc, k) ==
    IF loc # <<>> /\ loc # <<"Not Found">> /\ loc # <<"Location not specified">>
    THEN loc
    ELSE IF AppliedOfAllTime(k) # {}
    THEN parse_applied_info(
             mailbox[LABEL_APPLIED][Min(AppliedOfAllTime(k))].plain).Location
    ELSE IF loc # <<>> THEN loc ELSE PLACEHOLDER

\* C9 amended: the new record has the parsed Company Name and Job Title and
\* the notification's status; its Location is the parsed Location when that
\* is non-empty and not generic, otherwise the Location of the first Applied
\* email of the mailbox (of any date) with the same key, otherwise the
\* parsed Location if non-empty, otherwise a placeholder text.
C9_NewRecordAmended ==
    [][NotifUnmatched
         => LET k == notif_key_of(CurMsg)
            IN /\ k \in DOMAIN job_applications'
               /\ job_applications'[k].CompanyName = notif_parsed(CurMsg).CompanyName
               /\ job_applications'[k].JobTitle = notif_parsed(CurMsg).JobTitle
               /\ job_applications'[k].Location
                     = ExpectedNewLocation(notif_parsed(CurMsg).Location, k)
               /\ job_applications'[k].Status = status_of(CurrentLabel)]_vars

UNMATCHED_TEXT == " email found without matching Applied record in date range"

IsCreatedUnmatched(rec) == Len(rec.Comment) = 2 /\ rec.Comment[2] = UNMATCHED_TEXT

\* two records created from unmatched notifications with an empty parsed
\* location: one with the placeholder, one with the location looked up from
\* an Applied email the run did not fold
C9_Witness ==
    \E k1, k2 \in DOMAIN job_applications :
        /\ k1 # k2
        /\ IsCreatedUnmatched(job_applications[k1])
        /\ IsCreatedUnmatched(job_applications[k2])
        /\ job_applications[k1].Location = PLACEHOLDER
        /\ AppliedOfAllTime(k2) # {}
        /\ job_applications[k2].Location = <<"Remote">>

UNMATCHED_REASON ==
    "Unmatched 'Viewed' email. Added to main report, but a matching 'Applied' record was not found in the selected date range. Location: "

\* C10: a parsed Viewed message whose key has no record appends exactly one
\* failure record that marks it as unmatched, and the record it creates is
\* in the map and stays there up to the record set written as the report.
C10_UnmatchedViewedLogged ==
    [][/\ (NotifUnmatched /\ CurrentLabel = LABEL_VIEWED)
          => /\ Len(failure_log') = Len(failure_log) + 1
             /\ SubSeq(failure_log', 1, Len(failure_log)) = failure_log
             /\ failure_log'[Len(failure_log')].EmailID = messages[index]
             /\ failure_log'[Len(failure_log')].Label = LABEL_VIEWED
             /\ failure_log'[Len(failure_log')].Reason[1] = UNMATCHED_REASON
             /\ notif_key_of(CurMsg) \in DOMAIN job_applications'
       /\ DOMAIN job_applications \subseteq DOMAIN job_applications'
       /\ pc' = "done"
          => /\ Len(output') = Cardinality(DOMAIN job_applications)
             /\ \A k \in DOMAIN job_applications :
                   \E n \in 1..Len(output') : output'[n] = job_applications[k]]_vars

\* the report has been written with a record created from an unmatched
\* Viewed email, which the failure log names
C10_Witness ==
    /\ pc = "done"
    /\ \E f \in 1..Len(failure_log) :
          /\ failure_log[f].Reason[1] = UNMATCHED_REASON
          /\ \E n \in 1..Len(output) :
                /\ KeyOfRecord(output[n])
                      = NormKey(failure_log[f].CompanyName, failure_log[f].JobTitle)
                /\ output[n].Status = "Viewed"
                /\ IsCreatedUnmatched(output[n])

\* C11: every parsed Viewed or Rejected message whose key has no record is
\* added to the map and appends exactly one failure record, for the
\* Rejected label as well as for the Viewed label.
C11_UnmatchedAlwaysLogged ==
    [][NotifUnmatched
         => /\ notif_key_of(CurMsg) \in DOMAIN job_applications'
            /\ Len(failure_log') = Len(failure_log) + 1
            /\ failure_log'[Len(failure_log')].EmailID = messages[index]
            /\ failure_log'[Len(failure_log')].Label = CurrentLabel]_vars

\* an Applied message whose try block raises: it has no plain text body or
\* the Applied parser cannot find its three fields
AppliedFails(m) ==
    /\ m.fetch = "ok"
    /\ ~date_filtered(parse_date_header(m.date))
    /\ (m.plain = <<>> \/ ~parse_applied_info(m.plain).ok)

\* every selected Applied message that fails has its own failure record
AllAppliedFailuresLogged ==
    \A i \in 1..Len(mailbox[LABEL_APPLIED]) :
        (mailbox[LABEL_APPLIED][i].inRange /\ AppliedFails(mailbox[LABEL_APPLIED][i]))
           => \E f \in 1..Len(failure_log) :
                 failure_log[f].EmailID = i /\ failure_log[f].Label = LABEL_APPLIED

\* C12: an Applied message that cannot be parsed appends exactly one
\* failure record and changes no record of the map, and the run goes on:
\* the next message of the label, or the next label, is handled next, and
\* when the Applied loop is over every later message has been folded or
\* logged.
C12_AppliedFailureLogged ==
    [][/\ (InAppliedLoop /\ AppliedFails(CurMsg))
          => /\ Len(failure_log') = Len(failure_log) + 1
             /\ SubSeq(failure_log', 1, Len(failure_log)) = failure_log
             /\ failure_log'[Len(failure_log')].EmailID = messages[index]
             /\ failure_log'[Len(failure_log')].Label = LABEL_APPLIED
             /\ job_applications' = job_applications
             /\ key_order' = key_order
             /\ IF index < Len(messages)
                THEN pc' = "loop" /\ index' = index + 1 /\ phase' = phase
                ELSE pc' = "fetch" /\ phase' = phase + 1
       /\ (InNotifLoop \/ pc = "final")
          => AllAppliedFolded /\ AllAppliedFailuresLogged]_vars

\* the run is over; an Applied message failed and a later Applied message
\* of the same mailbox was folded into the map
C12_Witness ==
    /\ pc = "done"
    /\ \E i, j \in 1..Len(mailbox[LABEL_APPLIED]) :
          /\ i < j
          /\ AppliedFails(mailbox[LABEL_APPLIED][i])
          /\ \E f \in 1..Len(failure_log) :
                failure_log[f].EmailID = i /\ failure_log[f].Label = LABEL_APPLIED
          /\ mailbox[LABEL_APPLIED][j].inRange
          /\ applied_folds(mailbox[LABEL_APPLIED][j])
          /\ KeyOfRecord(applied_record_of(mailbox[LABEL_APPLIED][j]))
                \in DOMAIN job_applications

CRITICAL_REASON ==
    "Critical parse failure: Could not determine Company Name from HTML or Subject."

\* C13: no record is ever stored under a key whose company component is
\* empty; a Viewed/Rejected message whose Company Name is still empty after
\* the HTML and subject fallbacks carries the critical-failure error,
\* appends exactly one failure record and leaves the map unchanged.
C13_NoEmptyCompanyKey ==
    [][/\ \A k \in DOMAIN job_applications' :
             k[1] # <<>> /\ job_applications'[k].CompanyName # <<>>
       /\ (/\ InNotifLoop
           /\ CurMsg.fetch = "ok"
           /\ ~date_filtered(parse_date_header(CurMsg.date))
           /\ parse_viewed_rejected_info(CurMsg.html, CurMsg.subject).CompanyName = <<>>)
          => /\ parse_viewed_rejected_info(CurMsg.html, CurMsg.subject).error
                   = <<CRITICAL_REASON>>
             /\ Len(failure_log') = Len(failure_log) + 1
             /\ SubSeq(failure_log', 1, Len(failure_log)) = failure_log
             /\ failure_log'[Len(failure_log')].EmailID = messages[index]
             /\ failure_log'[Len(failure_log')].Label = CurrentLabel
             /\ failure_log'[Len(failure_log')].Reason = <<CRITICAL_REASON>>
             /\ job_applications' = job_applications
             /\ key_order' = key_order]_vars

\* a critical parse failure has been logged while the map holds a record
C13_Witness ==
    /\ DOMAIN job_applications # {}
    /\ \E f \in 1..Len(failure_log) :
          /\ failure_log[f].Reason = <<CRITICAL_REASON>>
          /\ failure_log[f].CompanyName = <<>>
          /\ failure_log[f].Label # LABEL_APPLIED

\* the message the loop is about to handle cannot be fetched, has no
\* usable body or cannot be parsed
CurMsgFails ==
    /\ pc = "loop"
    /\ \/ CurMsg.fetch # "ok"
       \/ InAppliedLoop /\ AppliedFails(CurMsg)
       \/ /\ InNotifLoop
          /\ CurMsg.fetch = "ok"
          /\ ~date_filtered(parse_date_header(CurMsg.date))
          /\ parse_viewed_rejected_info(CurMsg.html, CurMsg.subject).CompanyName = <<>>

\* C14: no per-message error escapes the run: a message that fails while
\* it is fetched, read or parsed appends a failure record for that message,
\* and the loop goes on with the next message or the next label.
C14_EveryFailureLogged ==
    [][CurMsgFails
         => /\ Len(failure_log') = Len(failure_log) + 1
            /\ failure_log'[Len(failure_log')].EmailID = messages[index]
            /\ failure_log'[Len(failure_log')].Label = CurrentLabel
            /\ IF index < Len(messages)
               THEN pc' = "loop" /\ index' = index + 1
               ELSE pc' \in {"fetch", "final"}]_vars

\* the keys whose record a step creates or changes
ChangedKeys ==
    {k \in DOMAIN job_applications' :
        k \notin DOMAIN job_applications \/ job_applications'[k] # job_applications[k]}

ORIGINAL_COMMENT == ". Original comment: "

\* C15: a message is applied to the map all or nothing: one loop iteration
\* changes at most one record, a record it creates or changes carries the
\* message's status, date and subject and the matching comment together,
\* and a message that ends in the exception handler changes no record.
C15_AllOrNothing ==
    [][pc = "loop"
         => /\ DOMAIN job_applications \subseteq DOMAIN job_applications'
            /\ Cardinality(ChangedKeys) <= 1
            /\ \A k \in ChangedKeys :
                  /\ job_applications'[k].Status = status_of(CurrentLabel)
                  /\ job_applications'[k].Date = parse_date_header(CurMsg.date)
                  /\ IF InAppliedLoop
                     THEN /\ job_applications'[k].MetadataSubject
                                \in {CurMsg.subject, <<"No Subject">>}
                          /\ job_applications'[k].Comment
                                = <<"Email regarding: ">>
                                     \o job_applications'[k].MetadataSubject
                     ELSE /\ job_applications'[k].MetadataSubject = CurMsg.subject
                          /\ IF k \in DOMAIN job_applications
                             THEN job_applications'[k].Comment
                                     = <<UPDATED, status_of(CurrentLabel), ORIGINAL_COMMENT>>
                                          \o job_applications[k].Comment
                             ELSE job_applications'[k].Comment
                                     = <<status_of(CurrentLabel), UNMATCHED_TEXT>>
            /\ (CurMsgFails \/ date_filtered(parse_date_header(CurMsg.date)))
                  => /\ job_applications' = job_applications
                     /\ key_order' = key_order]_vars

\* the map holds a record created by one notification and upgraded by a
\* later one, and a message that could not be parsed has been logged
C15_Witness ==
    /\ \E k \in DOMAIN job_applications :
          /\ IsUpgraded(job_applications[k])
          /\ Len(job_applications[k].Comment) = 5
          /\ job_applications[k].Comment[5] = UNMATCHED_TEXT
    /\ \E f \in 1..Len(failure_log) : failure_log[f].Reason[1] # UNMATCHED_REASON

\* str.upper() on the symbols of company names and job titles
UpperSym(c) ==
    CASE c \in {"Acme", "acme"} -> "ACME"
      [] c \in {"Corp", "corp"} -> "CORP"
      [] c \in {"SWE", "swe"} -> "SWE"
      [] OTHER -> c

Upper(s) == [i \in 1..Len(s) |-> UpperSym(s[i])]

Padded(s) == <<BLANK, BLANK>> \o s \o <<BLANK>>

KeyCalled == result.done /\ arg.fn = "key"

\* C16: the key of the Applied path and the key of the Viewed/Rejected path
\* are the same function of (company, title), namely lower-casing and
\* trimming each component; the function is idempotent and gives the same
\* key for inputs that differ only in case or in leading/trailing
\* whitespace.
C16_KeyNormalization ==
    KeyCalled
       => /\ result.applied = result.notif
          /\ result.applied = NormKey(arg.company, arg.title)
          /\ notif_key(result.notif[1], result.notif[2]) = result.notif
          /\ applied_key([CompanyName |-> result.applied[1],
                          JobTitle |-> result.applied[2]]) = result.applied
          /\ notif_key(Padded(arg.company), Upper(arg.title)) = result.notif
          /\ notif_key(lower(arg.company), Padded(arg.title)) = result.notif
          /\ applied_key([CompanyName |-> Upper(Padded(arg.company)),
                          JobTitle |-> Padded(lower(arg.title))]) = result.applied

\* the key of ("Acme Corp", " swe ") is the key of ("acme corp", "swe")
C16_Witness ==
    /\ KeyCalled
    /\ arg.company = <<"Acme", BLANK, "Corp">>
    /\ arg.title = <<BLANK, "swe", BLANK>>
    /\ result.applied = << <<"acme", BLANK, "corp">>, <<"swe">> >>
    /\ result.notif = NormKey(<<"acme", BLANK, "corp">>, <<"swe">>)

\* the lines of a body that are not blank, each without its leading and
\* trailing whitespace
RECURSIVE NonBlankTrimmed(_)
NonBlankTrimmed(lines) ==
    IF lines = <<>> THEN <<>>
    ELSE (IF \A i \in 1..Len(Head(lines)) : Head(lines)[i] = BLANK
          THEN <<>>
          ELSE <<strip(Head(lines))>>) \o NonBlankTrimmed(Tail(lines))

AnchorLines(lines) == {i \in 1..Len(lines) : \E j \in 1..Len(lines[i]) : lines[i][j] = ANCHOR}

\* the non-blank lines after the first line that contains the anchor
AfterAnchor(lines) ==
    LET a == CHOOSE i \in AnchorLines(lines) : \A j \in AnchorLines(lines) : i <= j
    IN NonBlankTrimmed(SubSeq(lines, a + 1, Len(lines)))

AppliedParsed == result.done /\ arg.fn = "parse_applied_info"

\* C17: when the first line that contains the anchor is followed by at
\* least three non-empty lines, parse_applied_info returns the first,
\* second and third of them, trimmed, as Job Title, Company Name and
\* Location, and the record made of the result has those values and
\* Status Applied.
C17_AppliedFields ==
    (/\ AppliedParsed
     /\ AnchorLines(arg.lines) # {}
     /\ Len(AfterAnchor(arg.lines)) >= 3)
       => /\ result.info.ok
          /\ result.info.JobTitle = AfterAnchor(arg.lines)[1]
          /\ result.info.CompanyName = AfterAnchor(arg.lines)[2]
          /\ result.info.Location = AfterAnchor(arg.lines)[3]
          /\ result.record.JobTitle = AfterAnchor(arg.lines)[1]
          /\ result.record.CompanyName = AfterAnchor(arg.lines)[2]
          /\ result.record.Location = AfterAnchor(arg.lines)[3]
          /\ result.record.Status = "Applied"

\* a body whose anchor line is followed by a blank line and three padded
\* lines has been parsed
C17_Witness ==
    /\ AppliedParsed
    /\ arg.lines = << <<ANCHOR, BLANK, "Acme">>, <<BLANK>>, <<BLANK, "SWE">>,
                      <<"Acme", BLANK>>, <<"Remote">> >>
    /\ result.record.JobTitle = <<"SWE">>
    /\ result.record.CompanyName = <<"Acme">>
    /\ result.record.Location = <<"Remote">>
    /\ result.record.Status = "Applied"

\* the fields that are empty or unresolvable when n non-empty lines follow
\* the anchor (n = 0 when there is no anchor)
UnresolvedFields(n) ==
    {<<"Job Title", "Company Name", "Location">>[i] : i \in (n + 1)..3}

LinesAfterAnchor(lines) ==
    IF AnchorLines(lines) = {} THEN 0 ELSE Len(AfterAnchor(lines))

\* C18: parse_applied_info fails exactly when the anchor is absent or
\* fewer than three non-empty lines follow it, and the error names exactly
\* the fields that are empty or unresolvable: all three without an anchor,
\* only Location when two non-empty lines follow the anchor.
C18_MissingFieldsNamed ==
    AppliedParsed
       => /\ ~result.info.ok <=> LinesAfterAnchor(arg.lines) < 3
          /\ ~result.info.ok
                => {result.info.missing[i] : i \in 1..Len(result.info.missing)}
                      = UnresolvedFields(LinesAfterAnchor(arg.lines))

NotifParsed == result.done /\ arg.fn = "parse_viewed_rejected_info"

\* a string with every "&amp;" replaced by "&"
AmpUnescaped(s) == [i \in 1..Len(s) |-> IF s[i] = "&amp;" THEN "&" ELSE s[i]]

\* what the subject line gives as company and as job title
SubjectCompany == IF arg.form \in {"viewed by", "application to"} THEN arg.sc ELSE <<>>
SubjectTitle == IF arg.form = "application to" THEN arg.st ELSE <<>>

\* C19: the Company Name of the result is the value shown by the HTML body
\* when there is one, otherwise the value captured from the subject line
\* ("... viewed by <company>" or "... application to <title> at
\* <company>"); likewise the Job Title; the Location comes from the HTML
\* body only; the error is set exactly when the Company Name is empty.
C19_HtmlBeforeSubject ==
    NotifParsed
       => /\ result.info.CompanyName
                = AmpUnescaped(IF arg.hc # <<>> THEN arg.hc ELSE SubjectCompany)
          /\ result.info.JobTitle
                = AmpUnescaped(IF arg.ht # <<>> THEN arg.ht ELSE SubjectTitle)
          /\ result.info.Location = AmpUnescaped(arg.hl)
          /\ result.info.error = <<>> <=> result.info.CompanyName # <<>>

\* the subject "Your application to Backend Engineer at Beta Inc" with an
\* HTML body that shows nothing has been parsed
C19_Witness ==
    /\ NotifParsed
    /\ arg.hc = <<>> /\ arg.hl = <<>> /\ arg.ht = <<>>
    /\ arg.subject = <<APPLICATION_TO, BLANK, "Backend", BLANK, "Engineer", BLANK,
                       "at", BLANK, "Beta", BLANK, "Inc">>
    /\ result.info.JobTitle = <<"Backend", BLANK, "Engineer">>
    /\ result.info.CompanyName = <<"Beta", BLANK, "Inc">>
    /\ result.info.Location = <<>>
    /\ result.info.error = <<>>

\* a string without entities, without a run of two or more whitespace
\* characters and without leading or trailing whitespace
IsClean(s) ==
    /\ \A i \in 1..Len(s) : s[i] \notin {"&amp;", "&nbsp;"}
    /\ \A i \in 1..(Len(s) - 1) : ~(s[i] = BLANK /\ s[i + 1] = BLANK)
    /\ s # <<>> => s[1] # BLANK /\ s[Len(s)] # BLANK

\* C20: each of the three strings parse_viewed_rejected_info returns is
\* entity-unescaped and whitespace-collapsed: it holds no "&amp;", no
\* non-breaking-space entity, no run of two or more whitespace characters
\* and no leading or trailing whitespace.
C20_UnescapedAndCollapsed ==
    NotifParsed
       => /\ IsClean(result.info.JobTitle)
          /\ IsClean(result.info.CompanyName)
          /\ IsClean(result.info.Location)

DateParsed == result.done /\ arg.fn = "parse_date_header"

\* C21: a Date header that cannot be parsed is not a failure:
\* parse_date_header raises nothing and gives the empty string, so that the
\* message goes on to be parsed and folded with Date "".
C21_BadDateNeverRaises ==
    (DateParsed /\ arg.header.kind # "date")
       => result.raised = "" /\ result.date_str = <<>>

\* the record field that holds the value of a report column
FieldOf(column) ==
    CASE column = "Company Name" -> "CompanyName"
      [] column = "Job Title" -> "JobTitle"
      [] column = "Metadata Subject" -> "MetadataSubject"
      [] OTHER -> column

SEVEN_COLUMNS ==
    <<"Company Name", "Job Title", "Status", "Date", "Location", "Metadata Subject",
      "Comment">>

SevenFields == {FieldOf(SEVEN_COLUMNS[i]) : i \in 1..7}

\* C22: every record of the map has exactly the seven fields Company Name,
\* Job Title, Status, Date, Location, Metadata Subject and Comment, with
\* Status one of Applied, Viewed, Rejected; the report is written with
\* exactly these seven column names in that order, and every row has
\* exactly these fields.
C22_SevenFields ==
    /\ \A k \in DOMAIN job_applications :
          /\ DOMAIN job_applications[k] = SevenFields
          /\ job_applications[k].Status \in {"Applied", "Viewed", "Rejected"}
    /\ pc = "done"
          => /\ report_header = SEVEN_COLUMNS
             /\ \A n \in 1..Len(output) : DOMAIN output[n] = SevenFields
    /\ pc # "done" => report_header = <<>>

\* the report has been written with a record upgraded by a notification
\* and a record created by one
C22_Witness ==
    /\ pc = "done"
    /\ report_header # <<>>
    /\ \E n1, n2 \in 1..Len(output) :
          IsUpgraded(output[n1]) /\ IsCreatedUnmatched(output[n2])

BodyCalled == result.done /\ arg.fn = "get_body"

\* the text of the part at position i
TextAt(i) == <<"H", <<"1", "2", "3", "4">>[i]>>

\* the decoded content of the first part, in walk order, of the content
\* type that is not an attachment; the empty string if there is none
FirstBody(msg, ctype) ==
    LET hits == {i \in 1..Len(msg.parts) :
                    msg.parts[i].ctype = ctype /\ msg.parts[i].cdispo # "attachment"}
    IN IF hits = {} THEN <<>>
       ELSE TextAt(CHOOSE i \in hits : \A j \in hits : i <= j)

\* C23: for any message, single-part or multi-part, get_plain_text_body
\* (get_html_body) returns the decoded content of the first part in walk
\* order that is text/plain (text/html) and not an attachment, and the
\* empty string when there is no such part.
C23_FirstMatchingPart ==
    BodyCalled
       => /\ result.plain = FirstBody(arg.msg, "text/plain")
          /\ result.html = FirstBody(arg.msg, "text/html")

\* the current notification upgrades the record of its key
NotifUpgrades ==
    /\ NotifMatches
    /\ Rank(status_of(CurrentLabel)) > Rank(job_applications[notif_key_of(CurMsg)].Status)

\* C24 as claimed: when a record is upgraded its Comment becomes
\* "Status updated to {status}. Original: {old_comment}".
C24_CommentOriginal ==
    [][NotifUpgrades
         => job_applications'[notif_key_of(CurMsg)].Comment
               = <<"Status updated to ", status_of(CurrentLabel), ". Original: ">>
                    \o job_applications[notif_key_of(CurMsg)].Comment]_vars

\* C24 amended: when a record is upgraded its Comment becomes
\* "Status updated to {status}. Original comment: {old_comment}", with the
\* new status and the Comment the record had right before the upgrade.
C24_CommentOriginalComment ==
    [][NotifUpgrades
         => job_applications'[notif_key_of(CurMsg)].Comment
               = <<"Status updated to ", status_of(CurrentLabel), ". Original comment: ">>
                    \o job_applications[notif_key_of(CurMsg)].Comment]_vars

\* a record seeded by an Applied email and upgraded once, to Viewed
C24_Witness ==
    \E k \in DOMAIN job_applications :
        /\ job_applications[k].Status = "Viewed"
        /\ Len(job_applications[k].Comment) = 5
        /\ job_applications[k].Comment[3] = ORIGINAL_COMMENT
        /\ job_applications[k].Comment[4] = "Email regarding: "

FoldCalled == result.done /\ arg.fn = "fold"

\* the statuses of the sequence that equal st, in their order
Only(statuses, st) == SelectSeq(statuses, LAMBDA x : x = st)

\* the highest-priority status among the folded notifications of the key
\* and the Applied email that seeded it
HighestStatus(seeded, statuses) ==
    IF \E i \in 1..Len(statuses) : statuses[i] = "Rejected" THEN "Rejected"
    ELSE IF \E i \in 1..Len(statuses) : statuses[i] = "Viewed" THEN "Viewed"
    ELSE IF seeded THEN "Applied" ELSE "none"

\* C25: the order in which Viewed and Rejected notifications are processed
\* does not change the final Status of a record: it is the highest-priority
\* status among the folded notifications of the key, whether the Viewed
\* ones are processed before or after the Rejected ones.
C25_OrderIndependentStatus ==
    FoldCalled
       => /\ result.final.Status = HighestStatus(arg.seeded, arg.statuses)
          /\ fold_notifications(SeedRecord(arg.seeded),
                                Only(arg.statuses, "Viewed")
                                   \o Only(arg.statuses, "Rejected")).Status
                = result.final.Status
          /\ fold_notifications(SeedRecord(arg.seeded),
                                Only(arg.statuses, "Rejected")
                                   \o Only(arg.statuses, "Viewed")).Status
                = result.final.Status

\* a Rejected notification followed by two Viewed ones of the same key,
\* on a record seeded by an Applied email, ends as Rejected
C25_Witness ==
    /\ FoldCalled
    /\ arg.seeded
    /\ arg.statuses = <<"Rejected", "Viewed", "Viewed">>
    /\ result.final.Status = "Rejected"

\* the key of the message the loop is about to handle
OwnKey ==
    IF InAppliedLoop
    THEN NormKey(parse_applied_info(CurMsg.plain).CompanyName,
                 parse_applied_info(CurMsg.plain).JobTitle)
    ELSE NormKey(parse_viewed_rejected_info(CurMsg.html, CurMsg.subject).CompanyName,
                 parse_viewed_rejected_info(CurMsg.html, CurMsg.subject).JobTitle)

\* C26: handling one message changes at most the record stored under that
\* message's own key: records under other keys stay as they are, no record
\* is removed from the map, and the failure records appended so far are
\* neither changed nor removed.
C26_FrameEffect ==
    [][/\ DOMAIN job_applications \subseteq DOMAIN job_applications'
       /\ \A k \in DOMAIN job_applications' :
             (k \notin DOMAIN job_applications
                 \/ job_applications'[k] # job_applications[k])
                => pc = "loop" /\ k = OwnKey
       /\ Len(failure_log') >= Len(failure_log)
       /\ SubSeq(failure_log', 1, Len(failure_log)) = failure_log]_vars

\* the map holds two records, one of them upgraded by a notification, and
\* the failure log holds a record
C26_Witness ==
    /\ Cardinality(DOMAIN job_applications) >= 2
    /\ \E k \in DOMAIN job_applications : IsUpgraded(job_applications[k])
    /\ Len(failure_log) >= 1

\* C27: every record of the map has a non-empty Location, in every
\* reachable state; hence an upgrade never meets a record with an empty
\* Location to fill in.
C27_LocationNeverEmpty ==
    /\ \A k \in DOMAIN job_applications : job_applications[k].Location # <<>>
    /\ \A n \in 1..Len(output) : output[n].Location # <<>>

\* the map holds a record seeded by an Applied email and upgraded by a
\* notification, and a record created by a notification without a location
C27_Witness ==
    \E k1, k2 \in DOMAIN job_applications :
        /\ AppliedFoldedAt(k1) # {}
        /\ IsUpgraded(job_applications[k1])
        /\ IsCreatedUnmatched(job_applications[k2])
        /\ job_applications[k2].Location = PLACEHOLDER

\* the message the loop is about to handle was fetched and its Date header
\* parses to a year before 2024
DatedBefore2024 ==
    /\ pc = "loop"
    /\ CurMsg.fetch = "ok"
    /\ CurMsg.date.kind = "date"
    /\ CurMsg.date.y < 2024

Occurrences(rows, r) == Cardinality({i \in 1..Len(rows) : rows[i] = r})

\* C29: over one run, each failure record appended to the in-memory
\* failure log is written to the failure log file exactly once: when the
\* run is over the file holds every record as often as the log does.
C29_FailuresWrittenOnce ==
    pc = "done" =>
        \A i \in 1..Len(failure_log) :
            Occurrences(failure_file, failure_log[i])
                = Occurrences(failure_log, failure_log[i])

\* the current notification reaches the parser, which resolves a company
\* but no job title
NotifTitleless ==
    /\ InNotifLoop
    /\ CurMsg.fetch = "ok"
    /\ ~date_filtered(parse_date_header(CurMsg.date))
    /\ notif_parsed(CurMsg).CompanyName # <<>>
    /\ notif_parsed(CurMsg).JobTitle = <<>>

\* the key (company, "") of a company
TitlelessKey(company) == <<lower(strip(company)), <<>>>>

\* C30: a Viewed/Rejected notification whose company resolves but whose
\* job title is empty is accepted without a parse error and folded under
\* the key (company, ""); no Applied email is folded under that key (an
\* Applied title is never empty), every other record is left as it was,
\* and the record under that key is the one record of the company that
\* has no title.
C30_TitlelessNotification ==
    [][NotifTitleless
         => LET k == TitlelessKey(notif_parsed(CurMsg).CompanyName)
            IN /\ notif_parsed(CurMsg).error = <<>>
               /\ \A f \in 1..Len(failure_log') :
                     f > Len(failure_log) => failure_log'[f].Reason # CRITICAL
               /\ k \in DOMAIN job_applications'
               /\ job_applications'[k].JobTitle = <<>>
               /\ lower(strip(job_applications'[k].CompanyName)) = k[1]
               /\ AppliedFoldedAt(k) = {}
               /\ \A k2 \in DOMAIN job_applications :
                     /\ AppliedFoldedAt(k2) # {} => job_applications[k2].JobTitle # <<>>
                     /\ k2 # k => /\ k2 \in DOMAIN job_applications'
                                  /\ job_applications'[k2] = job_applications[k2]
               /\ \A k2 \in DOMAIN job_applications' :
                     (job_applications'[k2].JobTitle = <<>> /\ k2[1] = k[1]) => k2 = k]_vars

\* a Viewed and then a Rejected notification without a title were folded
\* into one Acme record, next to an Acme record seeded by an Applied email
\* that is still "Applied"
C30_Witness ==
    /\ TitlelessKey(<<"Acme">>) \in DOMAIN job_applications
    /\ LET rec == job_applications[TitlelessKey(<<"Acme">>)]
       IN /\ rec.Status = "Rejected"
          /\ IsUpgraded(rec)
          /\ Len(rec.Comment) = 5
          /\ rec.Comment[5] = UNMATCHED_TEXT
    /\ \E k \in DOMAIN job_applications :
          /\ k[1] = <<"acme">>
          /\ AppliedFoldedAt(k) # {}
          /\ job_applications[k].Status = "Applied"

====
